---- MODULE Spec2Model ----
(***************************************************************************)
(* A model of the taa-fog rendering pipeline: the fog Pipeline             *)
(* (src/src/Pipeline.ts), the TAA Pipeline variant (src/unnamed/part_005)  *)
(* and the ordered-dither shaders they drive.                              *)
(***************************************************************************)
EXTENDS Integers, Sequences, FiniteSets, TLC

VARIABLES
    variant,        \* which Pipeline class was constructed: "fog" or "taa"
    window,         \* <<window.innerWidth, window.innerHeight>>
    meshMaterial,   \* the material slot of every scene mesh
    liveClones,     \* per-object stochastic material clones created and not disposed
    draws,          \* the draw calls issued by the most recent render() call
    pipe,           \* the fields of the fog Pipeline object
    jitterLog,      \* jitter indices handed to the depth shader since the last reset
    taa,            \* the fields of the TAA Pipeline object, its camera and cube uniform
    rebound,        \* setScene was called on a pipeline in steady state, no render() since
    prevHistory,    \* the target the blend pass of the frame before `draws` sampled as history
    dither,         \* one fragment of a stochastic shader followed over a jitter cycle
    composed,       \* one pixel of the compose pass: its inputs and its output
    app,            \* the Renderer object, its init() and the browser's frame and event queues
    storage,        \* the SettingsStorage singleton and the callers of getInstance()
    settings        \* the Settings object and the last setData() call made on it

pipeVars == <<variant, window, meshMaterial, liveClones, draws, pipe, jitterLog, taa, rebound,
              prevHistory>>

shaderVars == <<dither, composed>>

appVars == <<app, storage, settings>>

vars == <<pipeVars, shaderVars, appVars>>

(***************************************************************************)
(* Bounds of the model.                                                    *)
(***************************************************************************)
\* render() calls with a scene that are followed between two history resets
MaxFrames == 4

\* the same, in the specification that follows the jitter index around its cycle
MaxCycleFrames == 17

\* fixed-point unit of the blend factor: a factor b stands for b / BlendScale
BlendScale == 10

\* jitter offsets a camera matrix can carry when a TAA render() throws on it
MaxBakedOffsets == 1

\* requestAnimationFrame handles handed out by the browser
MaxAnimationFrames == 3

\* fields a saved settings object carries in one section
MaxGivenFields == 1

\* settings changed through their setters before saved data is merged in
MaxUserFields == 2

(***************************************************************************)
(* Environment: window sizes, scenes, meshes and their materials.          *)
(***************************************************************************)
WindowSizes == {<<8, 6>>, <<5, 3>>}

DownsamplingFactors == {1, 2}

\* values a caller can hand to setFogBlendFactor: inside and outside [0,1]
BlendFactors == {0 - 5, 7, 15}

\* "treeScene": floor, transparent cylinder ("cube") and transparent particles;
\* "cubeScene": floor and a cube with a stochastic ShaderMaterial
Scenes == {"treeScene", "cubeScene"}

Meshes == {"floor", "cube", "particles", "floor2", "cube2"}

SceneMeshes(s) ==
    IF s = "treeScene" THEN {"floor", "cube", "particles"} ELSE {"floor2", "cube2"}

OriginalMaterial(mesh) ==
    CASE mesh = "floor" -> "floorMat"
      [] mesh = "cube" -> "cylinderMaterial"
      [] mesh = "particles" -> "particleMaterial"
      [] mesh = "floor2" -> "floorMat2"
      [] OTHER -> "stochasticTransparencyMat"

\* material instanceof THREE.MeshPhysicalMaterial && material.transparent
IsTransparentPhysical(mat) == mat \in {"cylinderMaterial", "particleMaterial"}

\* material instanceof THREE.ShaderMaterial (the TAA scene's cube)
IsShaderMaterial(mat) == mat \in {"stochasticTransparencyMat"}

\* the identity of the clone made for a mesh by stochasticDepthMaterial.clone()
CloneFor(mesh) ==
    CASE mesh = "cube" -> "cloneForCube"
      [] mesh = "particles" -> "cloneForParticles"
      [] OTHER -> "cloneForOther"

\* all orders in which scene.traverse can visit the meshes of a scene
TraversalOrders(s) ==
    LET ms == SceneMeshes(s)
        n == Cardinality(ms)
    IN {q \in [1..n -> ms] : \A i, j \in 1..n : i # j => q[i] # q[j]}

(***************************************************************************)
(* The fog Pipeline (src/src/Pipeline.ts).                                 *)
(***************************************************************************)
JitterPeriod == 16

DefaultDownsamplingFactor == 2

DefaultBlendFactor == 7

\* fogBlurRadius uniform of a new ComposeMaterial
DefaultFogBlurRadius == 2

DownsampledSize(win, f) == <<win[1] \div f, win[2] \div f>>

FogTargets == {"fogA", "fogB", "fogC"}

PipelineTargets == {"color", "depth"} \cup FogTargets

NoStochasticDepthMaterial == [created |-> FALSE, resolution |-> <<0, 0>>, jitterIndex |-> 0]

\* new StochasticDepthMaterial(width, height)
StochasticDepthMaterial(res) == [created |-> TRUE, resolution |-> res, jitterIndex |-> 0]

\* constructor: initColorBuffer, initDepthBuffer, initFog, initComposition, initDebugDepth
NewPipeline(win, f) ==
    [sceneBuilder |-> "null",
     downsamplingFactor |-> f,
     colorTarget |-> "color",
     depthTarget |-> "depth",
     stochasticDepthMaterial |-> NoStochasticDepthMaterial,
     stochasticJitterIndex |-> 0,
     transparentMeshes |-> <<>>,
     fogCurrentTarget |-> "fogA",
     fogHistoryTarget |-> "fogB",
     fogBlendedTarget |-> "fogC",
     fogFirstFrame |-> TRUE,
     size |-> [t \in PipelineTargets |->
                  IF t = "color" THEN win ELSE DownsampledSize(win, f)],
     fogMaterial |-> [resolution |-> DownsampledSize(win, f), tDepth |-> "null"],
     fogBlendMaterial |-> [tCurrent |-> "null", tHistory |-> "null",
                           blendFactor |-> DefaultBlendFactor],
     composeMaterial |-> [resolution |-> win, tColor |-> "null", tFog |-> "null",
                          fogBlurRadius |-> DefaultFogBlurRadius],
     depthPassMaterial |-> [resolution |-> DownsampledSize(win, f)],
     disposed |-> {}]

\* the texture uniforms of a material that are bound to something
Sampled(textures) == textures \ {"null"}

\* one renderer.render call: the bound destination, the pipeline targets sampled by the
\* material drawn, the jitterIndex uniform of the stochastic material (-1: none), the
\* jitterIndex uniforms of the per-object clones and the meshes that carry a clone
Draw(pass, dest, sampled, jitterIndex, cloneJitter, substituted) ==
    [pass |-> pass, dest |-> dest, sampled |-> sampled,
     jitterIndex |-> jitterIndex, cloneJitter |-> cloneJitter, substituted |-> substituted]

\* a cache rebuild that pushes onto the old list instead of clearing it first
updateTransparentMeshesCacheAppend(p, mats, order) ==
    IF p.sceneBuilder = "null"
    THEN [p EXCEPT !.transparentMeshes = <<>>]
    ELSE [p EXCEPT !.transparentMeshes =
              @ \o SelectSeq(order, LAMBDA mesh : IsTransparentPhysical(mats[mesh]))]

\* updateTransparentMeshesCache: one traversal, in the given order
updateTransparentMeshesCache(p, mats, order) ==
    IF p.sceneBuilder = "null"
    THEN [p EXCEPT !.transparentMeshes = <<>>]
    ELSE [p EXCEPT !.transparentMeshes =
              SelectSeq(order, LAMBDA mesh : IsTransparentPhysical(mats[mesh]))]

setScene(p, mats, s, order) ==
    updateTransparentMeshesCache([p EXCEPT !.sceneBuilder = s], mats, order)

renderColorBuffer(m) ==
    [m EXCEPT !.draws = Append(@, Draw("color", m.p.colorTarget, {}, 0 - 1, {}, {}))]

\* an index update that wraps one step late
updateStochasticDepthLateWrap(p) ==
    IF ~p.stochasticDepthMaterial.created
    THEN p
    ELSE [p EXCEPT !.stochasticDepthMaterial.jitterIndex = p.stochasticJitterIndex,
                   !.stochasticJitterIndex = (p.stochasticJitterIndex + 1) % (JitterPeriod + 1)]

updateStochasticDepth(p) ==
    IF ~p.stochasticDepthMaterial.created
    THEN p
    ELSE [p EXCEPT !.stochasticDepthMaterial.jitterIndex = p.stochasticJitterIndex,
                   !.stochasticJitterIndex = (p.stochasticJitterIndex + 1) % JitterPeriod]

\* the substitution loop of renderDepthBuffer over the cached transparent meshes
RECURSIVE substituteTransparent(_, _, _)
substituteTransparent(meshes, i, acc) ==
    IF i > Len(meshes)
    THEN acc
    ELSE LET mesh == meshes[i]
             material == acc.mats[mesh]
         IN IF IsTransparentPhysical(material)
            THEN substituteTransparent(meshes, i + 1,
                     [mats |-> [acc.mats EXCEPT ![mesh] = CloneFor(mesh)],
                      originalMaterials |-> acc.originalMaterials \cup {<<mesh, material>>},
                      clonedMaterials |-> Append(acc.clonedMaterials, CloneFor(mesh))])
            ELSE substituteTransparent(meshes, i + 1, acc)

\* a restore that puts back only one saved material instead of every entry of the map
restoreLastSwapped(mats, originalMaterials) ==
    IF originalMaterials = {}
    THEN mats
    ELSE LET e == CHOOSE x \in originalMaterials : TRUE
         IN [mats EXCEPT ![e[1]] = e[2]]

\* originalMaterials.forEach((material, mesh) => { mesh.material = material })
restoreOriginalMaterials(mats, originalMaterials) ==
    [mesh \in DOMAIN mats |->
        IF \E e \in originalMaterials : e[1] = mesh
        THEN (CHOOSE e \in originalMaterials : e[1] = mesh)[2]
        ELSE mats[mesh]]

\* clonedMaterials.forEach((material) => { material.dispose() })
disposeClonedMaterials(live, clonedMaterials) ==
    live \ {clonedMaterials[i] : i \in DOMAIN clonedMaterials}

renderDepthBuffer(m, win, throws) ==
    LET ds == DownsampledSize(win, m.p.downsamplingFactor)
        p1 == IF ~m.p.stochasticDepthMaterial.created
              THEN [m.p EXCEPT !.stochasticDepthMaterial = StochasticDepthMaterial(ds)]
              ELSE m.p
        p2 == updateStochasticDepth(p1)
        sub == substituteTransparent(p2.transparentMeshes, 1,
                   [mats |-> m.mats, originalMaterials |-> {}, clonedMaterials |-> <<>>])
        created == {sub.clonedMaterials[i] : i \in DOMAIN sub.clonedMaterials}
        draw == Draw("depth", p2.depthTarget, {}, p2.stochasticDepthMaterial.jitterIndex,
                     IF created = {} THEN {} ELSE {p2.stochasticJitterIndex},
                     {e[1] : e \in sub.originalMaterials})
    IN IF throws
       THEN [m EXCEPT !.p = p2, !.mats = sub.mats, !.live = m.live \cup created,
                      !.draws = Append(@, draw), !.thrown = TRUE]
       ELSE [m EXCEPT !.p = p2,
                      !.mats = restoreOriginalMaterials(sub.mats, sub.originalMaterials),
                      !.live = disposeClonedMaterials(m.live \cup created, sub.clonedMaterials),
                      !.draws = Append(@, draw)]

renderFog(m) ==
    IF m.p.sceneBuilder = "null"
    THEN m
    ELSE LET p1 == [m.p EXCEPT !.fogMaterial.tDepth = m.p.depthTarget]
         IN [m EXCEPT !.p = p1,
                      !.draws = Append(@, Draw("fog", p1.fogCurrentTarget,
                                              Sampled({p1.fogMaterial.tDepth}), 0 - 1, {}, {}))]

\* a blend pass that writes its result straight into the history target it samples
blendFogInPlace(m) ==
    IF m.p.fogFirstFrame
    THEN [m EXCEPT !.p = [m.p EXCEPT !.fogFirstFrame = FALSE,
                                     !.fogHistoryTarget = m.p.fogCurrentTarget,
                                     !.fogCurrentTarget = m.p.fogHistoryTarget]]
    ELSE LET p1 == [m.p EXCEPT !.fogBlendMaterial.tCurrent = m.p.fogCurrentTarget,
                               !.fogBlendMaterial.tHistory = m.p.fogHistoryTarget]
         IN [m EXCEPT !.p = p1,
                      !.draws = Append(@, Draw("blend", p1.fogHistoryTarget,
                                              Sampled({p1.fogBlendMaterial.tCurrent,
                                                       p1.fogBlendMaterial.tHistory}),
                                              0 - 1, {}, {}))]

\* a blend pass whose swap has no temporary: the old history target is dropped
blendFogNoTemp(m) ==
    IF m.p.fogFirstFrame
    THEN [m EXCEPT !.p = [m.p EXCEPT !.fogFirstFrame = FALSE,
                                     !.fogHistoryTarget = m.p.fogCurrentTarget,
                                     !.fogCurrentTarget = m.p.fogHistoryTarget]]
    ELSE LET p1 == [m.p EXCEPT !.fogBlendMaterial.tCurrent = m.p.fogCurrentTarget,
                               !.fogBlendMaterial.tHistory = m.p.fogHistoryTarget]
             draw == Draw("blend", p1.fogBlendedTarget,
                          Sampled({p1.fogBlendMaterial.tCurrent, p1.fogBlendMaterial.tHistory}),
                          0 - 1, {}, {})
         IN [m EXCEPT !.p = [p1 EXCEPT !.fogHistoryTarget = p1.fogBlendedTarget],
                      !.draws = Append(@, draw)]

\* a blend pass that rotates the three fog roles instead of swapping two of them
blendFogRotate(m) ==
    IF m.p.fogFirstFrame
    THEN [m EXCEPT !.p = [m.p EXCEPT !.fogFirstFrame = FALSE,
                                     !.fogHistoryTarget = m.p.fogCurrentTarget,
                                     !.fogCurrentTarget = m.p.fogHistoryTarget]]
    ELSE LET p1 == [m.p EXCEPT !.fogBlendMaterial.tCurrent = m.p.fogCurrentTarget,
                               !.fogBlendMaterial.tHistory = m.p.fogHistoryTarget]
             draw == Draw("blend", p1.fogBlendedTarget,
                          Sampled({p1.fogBlendMaterial.tCurrent, p1.fogBlendMaterial.tHistory}),
                          0 - 1, {}, {})
         IN [m EXCEPT !.p = [p1 EXCEPT !.fogHistoryTarget = p1.fogBlendedTarget,
                                       !.fogBlendedTarget = p1.fogCurrentTarget,
                                       !.fogCurrentTarget = p1.fogHistoryTarget],
                      !.draws = Append(@, draw)]

\* a blend pass that leaves the history and blended roles as they were
blendFogNoSwap(m) ==
    IF m.p.fogFirstFrame
    THEN [m EXCEPT !.p = [m.p EXCEPT !.fogFirstFrame = FALSE,
                                     !.fogHistoryTarget = m.p.fogCurrentTarget,
                                     !.fogCurrentTarget = m.p.fogHistoryTarget]]
    ELSE LET p1 == [m.p EXCEPT !.fogBlendMaterial.tCurrent = m.p.fogCurrentTarget,
                               !.fogBlendMaterial.tHistory = m.p.fogHistoryTarget]
         IN [m EXCEPT !.p = p1,
                      !.draws = Append(@, Draw("blend", p1.fogBlendedTarget,
                                              Sampled({p1.fogBlendMaterial.tCurrent,
                                                       p1.fogBlendMaterial.tHistory}),
                                              0 - 1, {}, {}))]

blendFog(m) ==
    IF m.p.fogFirstFrame
    THEN [m EXCEPT !.p = [m.p EXCEPT !.fogFirstFrame = FALSE,
                                     !.fogHistoryTarget = m.p.fogCurrentTarget,
                                     !.fogCurrentTarget = m.p.fogHistoryTarget]]
    ELSE LET p1 == [m.p EXCEPT !.fogBlendMaterial.tCurrent = m.p.fogCurrentTarget,
                               !.fogBlendMaterial.tHistory = m.p.fogHistoryTarget]
             draw == Draw("blend", p1.fogBlendedTarget,
                          Sampled({p1.fogBlendMaterial.tCurrent, p1.fogBlendMaterial.tHistory}),
                          0 - 1, {}, {})
         IN [m EXCEPT !.p = [p1 EXCEPT !.fogHistoryTarget = p1.fogBlendedTarget,
                                       !.fogBlendedTarget = p1.fogHistoryTarget],
                      !.draws = Append(@, draw)]

compose(m) ==
    LET p1 == [m.p EXCEPT !.composeMaterial.tColor = m.p.colorTarget,
                          !.composeMaterial.tFog = m.p.fogHistoryTarget]
    IN [m EXCEPT !.p = p1,
                 !.draws = Append(@, Draw("compose", "screen",
                                         Sampled({p1.composeMaterial.tColor,
                                                  p1.composeMaterial.tFog}), 0 - 1, {}, {}))]

\* a render() without the early return for a missing scene
renderUnguarded(m, win, throws) ==
    LET m2 == renderDepthBuffer(renderColorBuffer(m), win, throws)
    IN IF m2.thrown THEN m2 ELSE compose(blendFog(renderFog(m2)))

\* a render() that marches the fog before the depth buffer of the frame is drawn
renderFogBeforeDepth(m, win, throws) ==
    IF m.p.sceneBuilder = "null"
    THEN m
    ELSE LET m2 == renderDepthBuffer(renderFog(renderColorBuffer(m)), win, throws)
         IN IF m2.thrown THEN m2 ELSE compose(blendFog(m2))

\* render(): the five passes in order; a throwing depth draw ends the call
render(m, win, throws) ==
    IF m.p.sceneBuilder = "null"
    THEN m
    ELSE LET m2 == renderDepthBuffer(renderColorBuffer(m), win, throws)
         IN IF m2.thrown THEN m2 ELSE compose(blendFog(renderFog(m2)))

\* setSize calls that reach the current and history fog targets but not the blended one
setSizesTwoFogTargets(p, win, ds) ==
    [t \in PipelineTargets |->
        IF t = p.colorTarget THEN win
        ELSE IF t \in {p.depthTarget, p.fogCurrentTarget, p.fogHistoryTarget}
             THEN ds
             ELSE p.size[t]]

\* the setSize calls of updateTargets: the color target takes the window size, the
\* depth target and the three fog targets, found through their roles, the downsampled one
setSizes(p, win, ds) ==
    [t \in PipelineTargets |->
        IF t = p.colorTarget THEN win
        ELSE IF t \in {p.depthTarget, p.fogCurrentTarget, p.fogHistoryTarget,
                       p.fogBlendedTarget}
             THEN ds
             ELSE p.size[t]]

\* an updateTargets that leaves the first-frame flag as it is
updateTargetsKeepsFlag(p, win) ==
    LET ds == DownsampledSize(win, p.downsamplingFactor)
    IN [p EXCEPT !.size = setSizes(p, win, ds),
                 !.stochasticDepthMaterial.resolution =
                     IF p.stochasticDepthMaterial.created THEN ds ELSE @,
                 !.fogMaterial.resolution = ds,
                 !.composeMaterial.resolution = win,
                 !.depthPassMaterial.resolution = ds,
                 !.stochasticJitterIndex = 0]

\* an updateTargets that divides the targets' current size instead of the window's
updateTargetsRelative(p, win) ==
    LET ds == DownsampledSize(p.size[p.depthTarget], p.downsamplingFactor)
    IN [p EXCEPT !.size = setSizes(p, win, ds),
                 !.stochasticDepthMaterial.resolution =
                     IF p.stochasticDepthMaterial.created THEN ds ELSE @,
                 !.fogMaterial.resolution = ds,
                 !.composeMaterial.resolution = win,
                 !.depthPassMaterial.resolution = ds,
                 !.fogFirstFrame = TRUE,
                 !.stochasticJitterIndex = 0]

updateTargets(p, win) ==
    LET ds == DownsampledSize(win, p.downsamplingFactor)
    IN [p EXCEPT !.size = setSizes(p, win, ds),
                 !.stochasticDepthMaterial.resolution =
                     IF p.stochasticDepthMaterial.created THEN ds ELSE @,
                 !.fogMaterial.resolution = ds,
                 !.composeMaterial.resolution = win,
                 !.depthPassMaterial.resolution = ds,
                 !.fogFirstFrame = TRUE,
                 !.stochasticJitterIndex = 0]

setDownsamplingFactor(p, value, win) ==
    updateTargets([p EXCEPT !.downsamplingFactor = value], win)

getDownsamplingFactor(p) == p.downsamplingFactor

\* a setter that stores the radius the shader will use, min(radius, 4.0)
setFogBlurRadiusClamped(p, value) ==
    [p EXCEPT !.composeMaterial.fogBlurRadius = IF value > 4 THEN 4 ELSE value]

\* setFogBlurRadius -> ComposeMaterial.setFogBlurRadius
setFogBlurRadius(p, value) == [p EXCEPT !.composeMaterial.fogBlurRadius = value]

\* getFogBlurRadius -> ComposeMaterial.getFogBlurRadius
getFogBlurRadius(p) == p.composeMaterial.fogBlurRadius

\* the materials and the shared geometry the constructor creates
PipelineMaterials == {"fogMaterial", "fogBlendMaterial", "composeMaterial", "depthPassMaterial"}

\* dispose(): every target through its role field, the stochastic depth material if it
\* exists, the four materials and the shared fullscreen triangle
dispose(p) ==
    [p EXCEPT !.disposed =
        @ \cup {p.colorTarget, p.depthTarget, p.fogCurrentTarget, p.fogHistoryTarget,
                p.fogBlendedTarget}
          \cup (IF p.stochasticDepthMaterial.created THEN {"stochasticDepthMaterial"} ELSE {})
          \cup PipelineMaterials
          \cup {"fullscreenTriangle"}]

\* the resources a list of draws makes the renderer allocate again: the targets bound
\* or sampled and, for the fullscreen passes, their material and the shared triangle
UsedBy(ds) ==
    LET fullscreen == {i \in DOMAIN ds : ds[i].pass \in {"fog", "blend", "compose"}}
    IN UNION {({ds[i].dest} \cup ds[i].sampled) \ {"screen"} : i \in DOMAIN ds}
       \cup {CASE ds[i].pass = "fog" -> "fogMaterial"
               [] ds[i].pass = "blend" -> "fogBlendMaterial"
               [] OTHER -> "composeMaterial" : i \in fullscreen}
       \cup (IF fullscreen = {} THEN {} ELSE {"fullscreenTriangle"})

setFogBlendFactor(p, value) == [p EXCEPT !.fogBlendMaterial.blendFactor = value]

getFogBlendFactor(p) == p.fogBlendMaterial.blendFactor

(***************************************************************************)
(* The TAA Pipeline variant (src/unnamed/part_005).                        *)
(***************************************************************************)
TAAJitterPeriod == 8

TAAStochasticJitterPeriod == 16

TAATargets == {"taaCurrent", "taaP", "taaQ", "taaDepthA", "taaDepthB", "taaVelocity",
               "taaFog", "taaDepthPass"}

\* camera.updateProjectionMatrix(): the perspective matrix of the camera for the
\* aspect of a window, with no jitter offset added to its elements 8 and 9
CanonicalProjection(win) == [aspect |-> win, offsets |-> 0]

\* constructor: initTAA, initDepthPass, initFog, initComposition.  projectionMatrix is
\* camera.projectionMatrix: the aspect it was computed for and how many Halton offsets
\* (none of them zero) were added to it; cubeJitterIndex is the jitterIndex uniform of the
\* scene cube
NewTAAPipeline(win) ==
    [sceneBuilder |-> "null",
     taaCurrentTarget |-> "taaCurrent",
     taaPreviousTarget |-> "taaP",
     taaAccumulatedTarget |-> "taaQ",
     taaDepthTarget |-> "taaDepthA",
     taaHistoryDepthTarget |-> "taaDepthB",
     taaVelocityTarget |-> "taaVelocity",
     depthTarget |-> "taaDepthPass",
     fogTarget |-> "taaFog",
     taaJitterIndex |-> 0,
     stochasticJitterIndex |-> 0,
     taaFirstFrame |-> TRUE,
     projectionMatrix |-> CanonicalProjection(win),
     originalProjectionMatrix |-> CanonicalProjection(win),
     cubeJitterIndex |-> 0,
     size |-> [t \in TAATargets |-> win],
     fogMaterial |-> [resolution |-> win, tDepth |-> "null"],
     taaBlendMaterial |-> [tCurrent |-> "null", tHistory |-> "null",
                           blendFactor |-> DefaultBlendFactor],
     taaVelocityMaterial |-> [resolution |-> win, tDepth |-> "null"],
     composeMaterial |-> [tColor |-> "null", tFog |-> "null"]]

\* the material of sceneBuilder.cube, when the scene has a cube
CubeMaterial(s, mats) == IF s = "treeScene" THEN mats["cube"] ELSE mats["cube2"]

updateStochasticTransparency(t, mats) ==
    IF t.sceneBuilder = "null"
    THEN t
    ELSE IF IsShaderMaterial(CubeMaterial(t.sceneBuilder, mats))
         THEN [t EXCEPT !.cubeJitterIndex = t.stochasticJitterIndex,
                        !.stochasticJitterIndex =
                            (t.stochasticJitterIndex + 1) % TAAStochasticJitterPeriod]
         ELSE t

applyCameraJitter(t) ==
    [t EXCEPT !.projectionMatrix =
                  [t.originalProjectionMatrix EXCEPT !.offsets = @ + 1],
              !.taaJitterIndex = (t.taaJitterIndex + 1) % TAAJitterPeriod]

\* the passes of renderTAA once the scene is known to be bound
taaPasses(t0, win) ==
    LET sceneDraw(dest, t) == Draw("scene", dest, {}, t.cubeJitterIndex, {}, {})
        \* scene to current target, then to the depth target
        d1 == <<sceneDraw(t0.taaCurrentTarget, t0), sceneDraw(t0.taaDepthTarget, t0)>>
        \* velocity buffer
        t1 == [t0 EXCEPT !.taaVelocityMaterial.resolution = win,
                         !.taaVelocityMaterial.tDepth = t0.taaDepthTarget]
        d2 == Append(d1, Draw("velocity", t1.taaVelocityTarget,
                              Sampled({t1.taaVelocityMaterial.tDepth}), 0 - 1, {}, {}))
        \* first frame: scene straight into the accumulated and history depth targets
        d3 == IF t1.taaFirstFrame
              THEN d2 \o <<sceneDraw(t1.taaAccumulatedTarget, t1),
                           sceneDraw(t1.taaHistoryDepthTarget, t1)>>
              ELSE d2
        t2 == [t1 EXCEPT !.taaFirstFrame = FALSE,
                         !.taaBlendMaterial.tCurrent = t1.taaCurrentTarget,
                         !.taaBlendMaterial.tHistory = t1.taaAccumulatedTarget]
        \* blend accumulated with current into the previous target
        d4 == Append(d3, Draw("blend", t2.taaPreviousTarget,
                              Sampled({t2.taaBlendMaterial.tCurrent,
                                       t2.taaBlendMaterial.tHistory}), 0 - 1, {}, {}))
        t3 == [t2 EXCEPT !.taaBlendMaterial.tCurrent = t2.taaPreviousTarget,
                         !.taaBlendMaterial.tHistory = t2.taaPreviousTarget,
                         !.fogMaterial.tDepth = t2.taaDepthTarget]
        d5 == Append(d4, Draw("fog", t3.fogTarget, Sampled({t3.fogMaterial.tDepth}),
                              0 - 1, {}, {}))
        t4 == [t3 EXCEPT !.composeMaterial.tColor = t3.taaPreviousTarget,
                         !.composeMaterial.tFog = t3.fogTarget]
        d6 == Append(d5, Draw("compose", "screen",
                              Sampled({t4.composeMaterial.tColor, t4.composeMaterial.tFog}),
                              0 - 1, {}, {}))
        \* ping-pong swaps, then the stored projection matrix is copied back
        t5 == [t4 EXCEPT !.taaAccumulatedTarget = t4.taaPreviousTarget,
                         !.taaPreviousTarget = t4.taaAccumulatedTarget,
                         !.taaHistoryDepthTarget = t4.taaDepthTarget,
                         !.taaDepthTarget = t4.taaHistoryDepthTarget,
                         !.projectionMatrix = t4.originalProjectionMatrix]
    IN [t |-> t5, draws |-> d6, thrown |-> FALSE]

\* renderTAA: with no scene bound, this.sceneBuilder!.scene throws a TypeError
\* before the first draw, after the camera has been jittered
renderTAA(t, mats, win) ==
    LET t1 == applyCameraJitter(updateStochasticTransparency(t, mats))
    IN IF t1.sceneBuilder = "null"
       THEN [t |-> t1, draws |-> <<>>, thrown |-> TRUE]
       ELSE taaPasses(t1, win)

\* render() of the TAA variant: every target exists, so renderTAA always runs
taaRender(t, mats, win) == renderTAA(updateStochasticTransparency(t, mats), mats, win)

taaUpdateTargets(t, win) ==
    [t EXCEPT !.size = [x \in TAATargets |-> win],
              !.fogMaterial.resolution = win,
              !.taaJitterIndex = 0,
              !.stochasticJitterIndex = 0,
              !.taaFirstFrame = TRUE]

\* updateProjectionMatrix(): the stored matrix becomes the camera's current one
updateProjectionMatrix(t) == [t EXCEPT !.originalProjectionMatrix = t.projectionMatrix]

\* Renderer.onResize on the TAA variant: the camera takes the window's aspect
taaOnResize(t, win) ==
    taaUpdateTargets(
        updateProjectionMatrix([t EXCEPT !.projectionMatrix = CanonicalProjection(win)]), win)

\* Renderer.onResize on the fog variant, whose updateProjectionMatrix is a no-op
onResize(p, win) == updateTargets(p, win)

setTAABlendFactor(t, value) == [t EXCEPT !.taaBlendMaterial.blendFactor = value]

getTAABlendFactor(t) == t.taaBlendMaterial.blendFactor

(***************************************************************************)
(* The ordered-dither shaders: stochasticDepth.frag.glsl (8x8), its 4x4    *)
(* predecessor (src/unnamed/part_003) and stochasticTransparency.frag.glsl *)
(* (4x4).  Thresholds are kept as numerators over BAYER_LEN; opacities as  *)
(* numerators over OpacityGrid and AlphaGrid.                              *)
(***************************************************************************)
\* opacity takes the values 0/OpacityGrid .. OpacityGrid/OpacityGrid
OpacityGrid == 8

\* the opacity map's alpha takes the values 0/AlphaGrid .. AlphaGrid/AlphaGrid
AlphaGrid == 2

\* fragments are followed at the pixels (0..MaxPixel, 0..MaxPixel)
MaxPixel == 1

Shaders == {"stochasticDepth8", "stochasticDepth4", "stochasticTransparency4"}

BAYER_8X8 ==
    << 0, 32,  8, 40,  2, 34, 10, 42,
      48, 16, 56, 24, 50, 18, 58, 26,
      12, 44,  4, 36, 14, 46,  6, 38,
      60, 28, 52, 20, 62, 30, 54, 22,
       3, 35, 11, 43,  1, 33,  9, 41,
      51, 19, 59, 27, 49, 17, 57, 25,
      15, 47,  7, 39, 13, 45,  5, 37,
      63, 31, 55, 23, 61, 29, 53, 21>>

\* a 4x4 matrix with one threshold entered twice (10 for 11)
BAYER_4X4_Repeated ==
    << 0,  8,  2, 10,
      12,  4, 14,  6,
       3, 10,  1,  9,
      15,  7, 13,  5>>

\* BAYER_4X4 of the 4x4 stochasticDepth.frag
BAYER_4X4 ==
    << 0,  8,  2, 10,
      12,  4, 14,  6,
       3, 11,  1,  9,
      15,  7, 13,  5>>

\* BAYER_4X4 of stochasticTransparency.frag.glsl
BAYER_4X4_Transparency ==
    << 0,  8,  2, 10,
      12,  4, 14,  6,
       3, 11,  1,  9,
      15,  7, 13,  5>>

BAYER_SIZE(shader) == IF shader = "stochasticDepth8" THEN 8 ELSE 4

BAYER_LEN(shader) == IF shader = "stochasticDepth8" THEN 64 ELSE 16

BayerMatrix(shader) ==
    CASE shader = "stochasticDepth8" -> BAYER_8X8
      [] shader = "stochasticDepth4" -> BAYER_4X4
      [] OTHER -> BAYER_4X4_Transparency

\* jitterIndex & 255, or & 15 in the 4x4 depth shader (jitterIndex >= 0)
JitterMask(shader) == IF shader = "stochasticDepth4" THEN 16 ELSE 256

\* ditherPattern(gl_FragCoord.xy, jitterIndex): the threshold numerator
ditherPattern(shader, x, y, jitterIndex) ==
    LET j == jitterIndex % JitterMask(shader)
        ox == j % BAYER_SIZE(shader)
        oy == j \div BAYER_SIZE(shader)
        px == (x + ox) % BAYER_SIZE(shader)
        py == (y + oy) % BAYER_SIZE(shader)
        idx == py * BAYER_SIZE(shader) + px
    IN BayerMatrix(shader)[idx + 1]

\* stochasticTransparency.frag.glsl has no opacity map
HasOpacityMapUniform(shader) == shader # "stochasticTransparency4"

\* finalOpacity = opacity * mapOpacity, as a fraction [num, den]
finalOpacity(shader, opacity, hasOpacityMap, alpha) ==
    IF HasOpacityMapUniform(shader) /\ hasOpacityMap
    THEN [num |-> opacity * alpha, den |-> OpacityGrid * AlphaGrid]
    ELSE [num |-> opacity, den |-> OpacityGrid]

\* main(): TRUE when the fragment is discarded (threshold > finalOpacity)
discarded(shader, x, y, jitterIndex, opacity, hasOpacityMap, alpha) ==
    LET threshold == ditherPattern(shader, x, y, jitterIndex)
        p == finalOpacity(shader, opacity, hasOpacityMap, alpha)
    IN threshold * p.den > p.num * BAYER_LEN(shader)

\* a blend that adds the weighted history on top of the full current frame
taaBlendAdditive(current, history, blendFactor) ==
    current * BlendScale + history * blendFactor

\* taaBlendSimple.frag main(): mix(current, history, blendFactor), scaled by BlendScale
taaBlendSimpleFrag(current, history, blendFactor) ==
    current * (BlendScale - blendFactor) + history * blendFactor

\* the fog blend pass: blended = history * historyWeight + current * currentWeight
\* with historyWeight the configured blend factor
fogBlendFrag(current, history, blendFactor) ==
    history * blendFactor + current * (BlendScale - blendFactor)

(***************************************************************************)
(* The compose shader (compose.frag.glsl and its graded version in         *)
(* shaderBuilder.ts), one colour channel of one pixel.  Alpha is kept as a *)
(* numerator over AlphaScale, colours as integers.                         *)
(***************************************************************************)
\* scene alpha takes values k / AlphaScale
AlphaScale == 1000

\* colour channels take the values 0 .. MaxChannel
MaxChannel == 2

\* color.a > 0.001: the threshold 0.001 is 1 / AlphaThresholdDen
AlphaThresholdDen == 1000

\* scene alphas around the threshold, and an opaque pixel
ComposeAlphas == {0, 1, 2, AlphaScale}

\* values handed to setFogBlurRadius: no blur, the default, out of range
BlurRadii == {0, 2, 9}

\* blurFog(tFog, vUv, fogBlurRadius): the texel itself for a radius <= 0, otherwise
\* the weighted mean of the texel's neighbourhood, which the fog texture determines
blurFog(texel, neighbourhoodMean, radius) ==
    IF radius <= 0 THEN texel ELSE neighbourhoodMean

\* a compose that takes the scene colour for an alpha of exactly 0.001 as well
composeFragInclusive(rgb, a, fog, backgroundColor) ==
    LET sceneColor == IF a * AlphaThresholdDen >= AlphaScale THEN rgb ELSE backgroundColor
    IN sceneColor + fog

\* main(): finalColor before colour correction and vignette
composeFrag(rgb, a, fog, backgroundColor) ==
    LET sceneColor == IF a * AlphaThresholdDen > AlphaScale THEN rgb ELSE backgroundColor
    IN sceneColor + fog

(***************************************************************************)
(* The Renderer: init(), the animation loop, the resize listener, dispose. *)
(***************************************************************************)
\* the calls init() makes once the settings were loaded or the load was given up
InitTail == <<"build", "setScene", "updateTargets", "applySettings", "setupGUI", "setupStats">>

\* new Renderer(): the pipeline and the settings exist, the resize listener (an arrow
\* function created in the constructor) is attached, no frame is scheduled
NewRenderer ==
    [pc |-> "constructed",          \* where init() stands
     settingsStorage |-> "null",
     settingsData |-> "defaults",
     persistence |-> "untried",     \* how the settings store answered
     initLog |-> <<>>,              \* the calls init() made, in order
     animationFrameId |-> 0,        \* 0: null
     scheduled |-> {},              \* frame callbacks the browser holds
     nextId |-> 1,
     listeners |-> {"constructorArrow"},
     started |-> FALSE,
     disposed |-> FALSE,
     disposedAfterStart |-> FALSE,
     afterDispose |-> {},           \* pipeline methods called after dispose()
     afterShutdown |-> {}]          \* those called after a dispose() that followed start()

\* the rest of init() after the try block
initTail(a) == [a EXCEPT !.pc = "initDone", !.initLog = @ \o InitTail]

\* an init() whose awaits are not inside a try block
initGetInstanceUncaught(a, outcome) ==
    IF outcome = "reject"
    THEN [a EXCEPT !.persistence = "openRejected", !.pc = "initRejected"]
    ELSE [a EXCEPT !.settingsStorage = "instance", !.pc = "awaitLoad"]

\* init() resumes after await SettingsStorage.getInstance()
initGetInstance(a, outcome) ==
    IF outcome = "reject"
    THEN initTail([a EXCEPT !.persistence = "openRejected"])
    ELSE [a EXCEPT !.settingsStorage = "instance", !.pc = "awaitLoad"]

\* init() resumes after await this.settingsStorage.load()
initLoad(a, outcome) ==
    CASE outcome = "reject" -> initTail([a EXCEPT !.persistence = "loadRejected"])
      [] outcome = "null" -> initTail([a EXCEPT !.persistence = "empty"])
      [] outcome = "saved" ->
            initTail([a EXCEPT !.persistence = "loaded", !.settingsData = "saved",
                               !.initLog = Append(@, "setData")])

\* a call the Renderer makes on its pipeline
pipelineCall(a, method) ==
    [a EXCEPT !.afterDispose = IF a.disposed THEN @ \cup {method} ELSE @,
              !.afterShutdown = IF a.disposedAfterStart THEN @ \cup {method} ELSE @]

\* animate(): the next frame is requested first, then Renderer.render() runs
animate(a) ==
    pipelineCall([a EXCEPT !.animationFrameId = a.nextId,
                           !.scheduled = @ \cup {a.nextId},
                           !.nextId = @ + 1], "render")

\* Renderer.onResize
rendererOnResize(a) == pipelineCall(a, "updateTargets")

\* a dispose() that leaves the requested frame in the browser's queue
rendererDisposeNoCancel(a) ==
    [a EXCEPT !.listeners = @ \ {"disposeArrow"},
              !.disposed = TRUE,
              !.disposedAfterStart = a.started]

\* Renderer.dispose(): cancelAnimationFrame of the stored handle, the disposals, and
\* removeEventListener with an arrow function created in this call
rendererDispose(a) ==
    [a EXCEPT !.scheduled = IF a.animationFrameId # 0 THEN @ \ {a.animationFrameId} ELSE @,
              !.listeners = @ \ {"disposeArrow"},
              !.disposed = TRUE,
              !.disposedAfterStart = a.started]

(***************************************************************************)
(* SettingsStorage: the singleton, its database handle and its callers.    *)
(***************************************************************************)
\* the asynchronous callers of SettingsStorage.getInstance()
Callers == {"first", "second"}

\* no getInstance() call yet: the static instance field is null
NoStorage ==
    [instance |-> "null",
     db |-> "null",                 \* the db field of the instance
     opens |-> 0,                   \* indexedDB.open requests issued
     requests |-> {},               \* open requests not yet answered
     caller |-> [c \in Callers |-> [pc |-> "idle", got |-> "none", dbAtResolve |-> "none"]]]

\* getInstance() up to its first await, or to its return when the instance exists
getInstance(st, c) ==
    IF st.instance = "null"
    THEN [st EXCEPT !.instance = "theInstance",
                    !.opens = @ + 1,
                    !.requests = @ \cup {[owner |-> c, from |-> "getInstance"]},
                    !.caller[c].pc = "awaitInit"]
    ELSE [st EXCEPT !.caller[c] = [pc |-> "resolved", got |-> st.instance,
                                   dbAtResolve |-> st.db]]

\* request.onsuccess of init(): the handle is stored and the awaiting function resumes
openSuccess(st, r) ==
    LET st1 == [st EXCEPT !.db = "handle", !.requests = @ \ {r}]
    IN IF r.from = "getInstance"
       THEN [st1 EXCEPT !.caller[r.owner] = [pc |-> "resolved", got |-> st1.instance,
                                             dbAtResolve |-> st1.db]]
       ELSE [st1 EXCEPT !.caller[r.owner].pc = "awaitGet"]

\* request.onerror of init(): the awaiting function's promise rejects
openError(st, r) ==
    [st EXCEPT !.requests = @ \ {r},
               !.caller[r.owner].pc = IF r.from = "getInstance" THEN "rejected"
                                      ELSE "loadRejected"]

\* load() on the instance a caller holds, up to its first await
load(st, c) ==
    IF st.db = "null"
    THEN [st EXCEPT !.opens = @ + 1,
                    !.requests = @ \cup {[owner |-> c, from |-> "load"]},
                    !.caller[c].pc = "awaitLoadInit"]
    ELSE [st EXCEPT !.caller[c].pc = "awaitGet"]

\* the store.get request of load() is answered
getDone(st, c, ok) ==
    [st EXCEPT !.caller[c].pc = IF ok THEN "loaded" ELSE "loadRejected"]

(***************************************************************************)
(* Settings: the data object, its getters and setData.                     *)
(***************************************************************************)
Sections == {"render", "fog", "particles", "postProcessing"}

\* interface SettingsData
SettingsFields(section) ==
    CASE section = "render" -> {"downsampling"}
      [] section = "fog" -> {"lightMultiplier", "warpSpeed", "blendFactor", "fogBlur",
                             "fogSteps", "rayNoiseScale"}
      [] section = "particles" -> {"brightness"}
      [] section = "postProcessing" -> {"vignetteIntensity", "vignetteRadius", "exposure",
                                        "contrast", "saturation", "brightness"}

\* Settings.getDefaults(); a value is "default", "user" (given to a setter) or "saved"
getDefaults == [section \in Sections |-> [f \in SettingsFields(section) |-> "default"]]

\* object spread { ...a, ...b }
Spread(a, b) ==
    [k \in DOMAIN a \cup DOMAIN b |-> IF k \in DOMAIN b THEN b[k] ELSE a[k]]

\* the getters: this.data.<section>.<field>
getField(data, section, f) ==
    IF f \in DOMAIN data[section] THEN data[section][f] ELSE "undefined"

\* the setters: this.data.<section>.<field> = value
setField(data, section, f, value) ==
    [data EXCEPT ![section] = Spread(@, [k \in {f} |-> value])]

\* setData: the shallow spread, then one merge per section that d supplies
setData(data, d) ==
    LET shallow == Spread(data, d)
    IN [section \in Sections |->
          IF section \notin DOMAIN d
          THEN shallow[section]
          ELSE IF section = "particles"
               THEN Spread(shallow[section], d[section])
               ELSE Spread(Spread(getDefaults[section], shallow[section]), d[section])]

\* new Settings(), with no setData() call made yet
NewSettings ==
    [data |-> getDefaults,
     called |-> FALSE,              \* setData() has been called
     before |-> getDefaults,        \* the data when it was called
     given |-> [section \in {} |-> 0]]  \* its argument

(***************************************************************************)
(* Actions of the pipelines.                                               *)
(***************************************************************************)
ComposeIdle ==
    [rgb |-> 0, a |-> 0, fogTexel |-> 0, fogMean |-> 0, fogBlurRadius |-> 0,
     backgroundColor |-> 0, finalColor |-> 0, drawn |-> FALSE]

DitherIdle ==
    [shader |-> "stochasticDepth8", x |-> 0, y |-> 0, opacity |-> 0, hasOpacityMap |-> FALSE,
     alpha |-> 0, jitterIndex |-> 0, survived |-> 0, thresholds |-> {}]

\* the Pipeline object of the variant that was not constructed
NoPipeline == NewPipeline(<<0, 0>>, DefaultDownsamplingFactor)

NoTAAPipeline == NewTAAPipeline(<<0, 0>>)

Init ==
    /\ variant \in {"fog", "taa"}
    /\ window \in WindowSizes
    /\ meshMaterial = [mesh \in Meshes |-> OriginalMaterial(mesh)]
    /\ liveClones = {}
    /\ draws = <<>>
    /\ pipe = IF variant = "fog"
              THEN NewPipeline(window, DefaultDownsamplingFactor)
              ELSE NoPipeline
    /\ jitterLog = <<>>
    /\ taa = IF variant = "taa" THEN NewTAAPipeline(window) ELSE NoTAAPipeline
    /\ rebound = FALSE
    /\ prevHistory = "none"
    /\ app = NewRenderer
    /\ storage = NoStorage
    /\ settings = NewSettings
    /\ dither = DitherIdle
    /\ composed = ComposeIdle

\* the windowing collaborator changes window.innerWidth / innerHeight
WindowResize ==
    /\ \E win \in WindowSizes : win # window /\ window' = win
    /\ UNCHANGED <<variant, meshMaterial, liveClones, draws, pipe, jitterLog, taa, rebound, prevHistory,
                   shaderVars, appVars>>

SetScene ==
    /\ variant = "fog"
    /\ \E s \in Scenes : \E order \in TraversalOrders(s) :
          pipe' = setScene(pipe, meshMaterial, s, order)
    /\ rebound' = (rebound \/ ~pipe.fogFirstFrame)
    /\ UNCHANGED <<variant, window, meshMaterial, liveClones, draws, jitterLog, taa, prevHistory,
                   shaderVars, appVars>>

\* the target a frame's blend pass sampled besides the fog pass's output of that frame
BlendHistory(ds) ==
    LET blends == {i \in DOMAIN ds : ds[i].pass = "blend"}
        fogs == {i \in DOMAIN ds : ds[i].pass = "fog"}
    IN IF blends = {} \/ fogs = {}
       THEN "none"
       ELSE LET others == ds[CHOOSE i \in blends : TRUE].sampled
                              \ {ds[CHOOSE i \in fogs : TRUE].dest}
            IN IF others = {} THEN "none" ELSE CHOOSE t \in others : TRUE

\* the pipeline, the scene's materials and an empty draw list at the start of render()
Machine == [p |-> pipe, mats |-> meshMaterial, draws |-> <<>>, live |-> liveClones,
            thrown |-> FALSE]

\* one render() call; throws: the scene draw of the depth pass throws
RenderCall(limit, throws) ==
    /\ variant = "fog"
    /\ Len(jitterLog) < limit
    /\ LET m == render(Machine, window, throws)
       IN /\ pipe' = [m.p EXCEPT !.disposed = @ \ UsedBy(m.draws)]
          /\ meshMaterial' = m.mats
          /\ liveClones' = m.live
          /\ draws' = m.draws
          /\ jitterLog' = IF pipe.sceneBuilder = "null"
                          THEN jitterLog
                          ELSE Append(jitterLog, m.p.stochasticDepthMaterial.jitterIndex)
          /\ rebound' = IF pipe.sceneBuilder = "null" THEN rebound ELSE FALSE
          /\ prevHistory' = IF pipe.sceneBuilder = "null"
                            THEN prevHistory
                            ELSE BlendHistory(draws)
    /\ UNCHANGED <<variant, window, taa, shaderVars, appVars>>

Render == \E throws \in BOOLEAN : RenderCall(MaxFrames, throws)

RenderCycle == \E throws \in BOOLEAN : RenderCall(MaxCycleFrames, throws)

UpdateTargets ==
    /\ variant = "fog"
    /\ pipe' = updateTargets(pipe, window)
    /\ jitterLog' = <<>>
    /\ rebound' = FALSE
    /\ prevHistory' = "none"
    /\ UNCHANGED <<variant, window, meshMaterial, liveClones, draws, taa, shaderVars, appVars>>

SetDownsamplingFactorTo(value) ==
    /\ variant = "fog"
    /\ pipe' = setDownsamplingFactor(pipe, value, window)
    /\ jitterLog' = <<>>
    /\ rebound' = FALSE
    /\ prevHistory' = "none"
    /\ UNCHANGED <<variant, window, meshMaterial, liveClones, draws, taa, shaderVars, appVars>>

SetDownsamplingFactor == \E value \in DownsamplingFactors : SetDownsamplingFactorTo(value)

\* the resize listener of the Renderer runs for the current window size
OnResize ==
    /\ IF variant = "fog"
       THEN pipe' = onResize(pipe, window) /\ taa' = taa
       ELSE taa' = taaOnResize(taa, window) /\ pipe' = pipe
    /\ jitterLog' = <<>>
    /\ rebound' = FALSE
    /\ prevHistory' = "none"
    /\ UNCHANGED <<variant, window, meshMaterial, liveClones, draws, shaderVars, appVars>>

Dispose ==
    /\ variant = "fog"
    /\ pipe' = dispose(pipe)
    /\ UNCHANGED <<variant, window, meshMaterial, liveClones, draws, jitterLog, taa, rebound, prevHistory,
                   shaderVars, appVars>>

SetFogBlendFactorTo(value) ==
    /\ variant = "fog"
    /\ pipe' = setFogBlendFactor(pipe, value)
    /\ UNCHANGED <<variant, window, meshMaterial, liveClones, draws, jitterLog, taa, rebound, prevHistory,
                   shaderVars, appVars>>

SetFogBlendFactor == \E value \in BlendFactors : SetFogBlendFactorTo(value)

SetFogBlurRadiusTo(value) ==
    /\ variant = "fog"
    /\ pipe' = setFogBlurRadius(pipe, value)
    /\ UNCHANGED <<variant, window, meshMaterial, liveClones, draws, jitterLog, taa, rebound, prevHistory,
                   shaderVars, appVars>>

SetFogBlurRadius == \E value \in BlurRadii : SetFogBlurRadiusTo(value)

TAASetScene ==
    /\ variant = "taa"
    /\ \E s \in Scenes : taa' = [taa EXCEPT !.sceneBuilder = s]
    /\ UNCHANGED <<variant, window, meshMaterial, liveClones, draws, pipe, jitterLog, rebound, prevHistory,
                   shaderVars, appVars>>

\* with no scene bound the call throws after the camera was jittered; such calls are
\* followed while fewer than MaxBakedOffsets offsets sit in the camera's matrix
TAARender ==
    /\ variant = "taa"
    /\ taa.sceneBuilder = "null" => taa.projectionMatrix.offsets < MaxBakedOffsets
    /\ LET m == taaRender(taa, meshMaterial, window)
       IN /\ taa' = m.t
          /\ draws' = m.draws
    /\ UNCHANGED <<variant, window, meshMaterial, liveClones, pipe, jitterLog, rebound, prevHistory, shaderVars, appVars>>

TAAUpdateTargets ==
    /\ variant = "taa"
    /\ taa' = taaUpdateTargets(taa, window)
    /\ UNCHANGED <<variant, window, meshMaterial, liveClones, draws, pipe, jitterLog, rebound, prevHistory,
                   shaderVars, appVars>>

TAAUpdateProjectionMatrix ==
    /\ variant = "taa"
    /\ taa' = updateProjectionMatrix(taa)
    /\ UNCHANGED <<variant, window, meshMaterial, liveClones, draws, pipe, jitterLog, rebound, prevHistory,
                   shaderVars, appVars>>

SetTAABlendFactor ==
    /\ variant = "taa"
    /\ \E value \in BlendFactors : taa' = setTAABlendFactor(taa, value)
    /\ UNCHANGED <<variant, window, meshMaterial, liveClones, draws, pipe, jitterLog, rebound, prevHistory,
                   shaderVars, appVars>>

Next ==
    \/ WindowResize
    \/ SetScene
    \/ Render
    \/ UpdateTargets
    \/ SetDownsamplingFactor
    \/ SetFogBlendFactor
    \/ OnResize
    \/ TAASetScene
    \/ TAARender
    \/ TAAUpdateTargets
    \/ TAAUpdateProjectionMatrix
    \/ SetTAABlendFactor

Spec == Init /\ [][Next]_vars

\* the fog pipeline followed over a full period of the stochastic jitter index
NextCycle ==
    \/ SetScene
    \/ RenderCycle
    \/ UpdateTargets

InitCycle == Init /\ variant = "fog"

SpecCycle == InitCycle /\ [][NextCycle]_vars

\* both variants followed over full periods of their jitter indices, with the resets
NextJitter ==
    \/ SetScene
    \/ RenderCycle
    \/ UpdateTargets
    \/ OnResize
    \/ TAASetScene
    \/ TAARender
    \/ TAAUpdateTargets

SpecJitter == Init /\ [][NextJitter]_vars

\* the fog pipeline with its tunable setters called between frames and resizes
NextSetters ==
    \/ SetScene
    \/ Render
    \/ UpdateTargets
    \/ SetFogBlendFactor
    \/ SetFogBlurRadius

InitSetters == Init /\ variant = "fog" /\ window = <<8, 6>>

SpecSetters == InitSetters /\ [][NextSetters]_vars

\* the fog pipeline with its dispose(): rendering, resizing and disposing in any order
NextDispose ==
    \/ SetScene
    \/ Render
    \/ UpdateTargets
    \/ Dispose

InitDispose == Init /\ variant = "fog" /\ window = <<8, 6>>

SpecDispose == InitDispose /\ [][NextDispose]_vars

(***************************************************************************)
(* One fragment of a stochastic shader over one cycle of jitter indices.   *)
(***************************************************************************)
InitDither ==
    /\ variant = "fog"
    /\ window = <<8, 6>>
    /\ meshMaterial = [mesh \in Meshes |-> OriginalMaterial(mesh)]
    /\ liveClones = {}
    /\ draws = <<>>
    /\ pipe = NewPipeline(window, DefaultDownsamplingFactor)
    /\ jitterLog = <<>>
    /\ taa = NoTAAPipeline
    /\ rebound = FALSE
    /\ prevHistory = "none"
    /\ app = NewRenderer
    /\ storage = NoStorage
    /\ settings = NewSettings
    /\ \E shader \in Shaders, x, y \in 0..MaxPixel, opacity \in 0..OpacityGrid,
          hasOpacityMap \in BOOLEAN, alpha \in 0..AlphaGrid :
          dither = [shader |-> shader, x |-> x, y |-> y, opacity |-> opacity,
                    hasOpacityMap |-> hasOpacityMap,
                    alpha |-> IF hasOpacityMap THEN alpha ELSE AlphaGrid,
                    jitterIndex |-> 0, survived |-> 0, thresholds |-> {}]
    /\ composed = ComposeIdle

\* the fragment is shaded with the next jitter index of the cycle
DitherFrame ==
    /\ dither.jitterIndex < BAYER_LEN(dither.shader)
    /\ dither' = [dither EXCEPT
          !.jitterIndex = @ + 1,
          !.survived = IF discarded(dither.shader, dither.x, dither.y, dither.jitterIndex,
                                    dither.opacity, dither.hasOpacityMap, dither.alpha)
                       THEN @ ELSE @ + 1,
          !.thresholds = @ \cup {ditherPattern(dither.shader, dither.x, dither.y,
                                               dither.jitterIndex)}]
    /\ UNCHANGED <<pipeVars, composed, appVars>>

NextDither == DitherFrame

SpecDither == InitDither /\ [][NextDither]_vars

(***************************************************************************)
(* One pixel of the compose pass.                                          *)
(***************************************************************************)
InitCompose ==
    /\ variant = "fog"
    /\ window = <<8, 6>>
    /\ meshMaterial = [mesh \in Meshes |-> OriginalMaterial(mesh)]
    /\ liveClones = {}
    /\ draws = <<>>
    /\ pipe = NewPipeline(window, DefaultDownsamplingFactor)
    /\ jitterLog = <<>>
    /\ taa = NoTAAPipeline
    /\ rebound = FALSE
    /\ prevHistory = "none"
    /\ app = NewRenderer
    /\ storage = NoStorage
    /\ settings = NewSettings
    /\ dither = DitherIdle
    /\ \E rgb, backgroundColor, fogTexel, fogMean \in 0..MaxChannel, a \in ComposeAlphas,
          radius \in BlurRadii :
          composed = [rgb |-> rgb, a |-> a, fogTexel |-> fogTexel, fogMean |-> fogMean,
                      fogBlurRadius |-> radius, backgroundColor |-> backgroundColor,
                      finalColor |-> 0, drawn |-> FALSE]

\* the compose shader runs for the pixel
ComposeFrame ==
    /\ ~composed.drawn
    /\ composed' = [composed EXCEPT
          !.finalColor = composeFrag(composed.rgb, composed.a,
                                     blurFog(composed.fogTexel, composed.fogMean,
                                             composed.fogBlurRadius),
                                     composed.backgroundColor),
          !.drawn = TRUE]
    /\ UNCHANGED <<pipeVars, dither, appVars>>

NextCompose == ComposeFrame

SpecCompose == InitCompose /\ [][NextCompose]_vars

(***************************************************************************)
(* The Renderer driven by App.init, the browser and its owner.             *)
(***************************************************************************)
\* App.init calls renderer.init(), which suspends at its first await
RendererInit ==
    /\ app.pc = "constructed"
    /\ app' = [app EXCEPT !.pc = "awaitInstance"]
    /\ UNCHANGED <<pipeVars, shaderVars, storage, settings>>

InitGetInstance ==
    /\ app.pc = "awaitInstance"
    /\ \E outcome \in {"resolve", "reject"} : app' = initGetInstance(app, outcome)
    /\ UNCHANGED <<pipeVars, shaderVars, storage, settings>>

InitLoad ==
    /\ app.pc = "awaitLoad"
    /\ \E outcome \in {"null", "saved", "reject"} : app' = initLoad(app, outcome)
    /\ UNCHANGED <<pipeVars, shaderVars, storage, settings>>

\* App.init calls renderer.start() once, after init() resolved
RendererStart ==
    /\ app.pc = "initDone"
    /\ ~app.started
    /\ app' = animate([app EXCEPT !.started = TRUE])
    /\ UNCHANGED <<pipeVars, shaderVars, storage, settings>>

\* the browser runs a scheduled frame callback
AnimationFrame ==
    /\ app.nextId <= MaxAnimationFrames
    /\ \E id \in app.scheduled : app' = animate([app EXCEPT !.scheduled = @ \ {id}])
    /\ UNCHANGED <<pipeVars, shaderVars, storage, settings>>

\* the window dispatches a resize event to every attached listener
ResizeEvent ==
    /\ app.listeners # {}
    /\ app' = rendererOnResize(app)
    /\ \E win \in WindowSizes : window' = win
    /\ UNCHANGED <<variant, meshMaterial, liveClones, draws, pipe, jitterLog, taa, rebound,
                   prevHistory, shaderVars, storage, settings>>

RendererDispose ==
    /\ app' = rendererDispose(app)
    /\ UNCHANGED <<pipeVars, shaderVars, storage, settings>>

NextRenderer ==
    \/ RendererInit
    \/ InitGetInstance
    \/ InitLoad
    \/ RendererStart
    \/ AnimationFrame
    \/ ResizeEvent
    \/ RendererDispose

InitRenderer == Init /\ variant = "fog"

SpecRenderer == InitRenderer /\ [][NextRenderer]_vars

(***************************************************************************)
(* SettingsStorage used by concurrent asynchronous callers.                *)
(***************************************************************************)
GetInstance ==
    /\ \E c \in Callers :
          /\ storage.caller[c].pc = "idle"
          /\ storage' = getInstance(storage, c)
    /\ UNCHANGED <<pipeVars, shaderVars, app, settings>>

OpenSuccess ==
    /\ \E r \in storage.requests : storage' = openSuccess(storage, r)
    /\ UNCHANGED <<pipeVars, shaderVars, app, settings>>

OpenError ==
    /\ \E r \in storage.requests : storage' = openError(storage, r)
    /\ UNCHANGED <<pipeVars, shaderVars, app, settings>>

Load ==
    /\ \E c \in Callers :
          /\ storage.caller[c].pc = "resolved"
          /\ storage' = load(storage, c)
    /\ UNCHANGED <<pipeVars, shaderVars, app, settings>>

GetDone ==
    /\ \E c \in Callers, ok \in BOOLEAN :
          /\ storage.caller[c].pc = "awaitGet"
          /\ storage' = getDone(storage, c, ok)
    /\ UNCHANGED <<pipeVars, shaderVars, app, settings>>

NextStorage ==
    \/ GetInstance
    \/ OpenSuccess
    \/ OpenError
    \/ Load
    \/ GetDone

InitStorage == Init /\ variant = "fog" /\ window = <<8, 6>>

SpecStorage == InitStorage /\ [][NextStorage]_vars

(***************************************************************************)
(* Settings changed through its setters and through setData.               *)
(***************************************************************************)
UserFields ==
    {<<section, f>> \in Sections \X UNION {SettingsFields(x) : x \in Sections} :
        f \in SettingsFields(section) /\ getField(settings.data, section, f) = "user"}

\* a setter called from the GUI
SettingsSet ==
    /\ ~settings.called
    /\ Cardinality(UserFields) < MaxUserFields
    /\ \E section \in Sections : \E f \in SettingsFields(section) :
          settings' = [settings EXCEPT !.data = setField(@, section, f, "user")]
    /\ UNCHANGED <<pipeVars, shaderVars, app, storage>>

\* the field sets a saved section can carry
GivenFields(section) ==
    {F \in SUBSET SettingsFields(section) : Cardinality(F) <= MaxGivenFields}

\* setData(d) with saved data d: any sections, each with some of its fields
SettingsSetData ==
    /\ ~settings.called
    /\ \E S \in SUBSET Sections :
       \E Fr \in GivenFields("render"), Ff \in GivenFields("fog"),
          Fp \in GivenFields("particles"), Fq \in GivenFields("postProcessing") :
          LET fields(section) == CASE section = "render" -> Fr
                                   [] section = "fog" -> Ff
                                   [] section = "particles" -> Fp
                                   [] section = "postProcessing" -> Fq
              d == [section \in S |-> [f \in fields(section) |-> "saved"]]
          IN settings' = [data |-> setData(settings.data, d), called |-> TRUE,
                          before |-> settings.data, given |-> d]
    /\ UNCHANGED <<pipeVars, shaderVars, app, storage>>

NextSettings ==
    \/ SettingsSet
    \/ SettingsSetData

InitSettings == Init /\ variant = "fog" /\ window = <<8, 6>>

SpecSettings == InitSettings /\ [][NextSettings]_vars

(***************************************************************************)
(* Properties.                                                             *)
(***************************************************************************)
\* the positions in a frame's draw list of the draws of one pass
PassDraws(ds, pass) == {i \in DOMAIN ds : ds[i].pass = pass}

\* round(num / den) for num >= 0, den > 0, halves rounded up
Round(num, den) == (2 * num + den) \div (2 * den)

\* C1: no aliasing.  In every draw issued by render(), in either pipeline variant
\* and after any sequence of render, updateTargets, setDownsamplingFactor and
\* setScene calls, the render target bound as destination is none of the targets
\* bound as sampled uniforms of the material drawn.
NoAliasing == \A i \in DOMAIN draws : draws[i].dest \notin draws[i].sampled

\* a steady-state fog frame: the blend pass sampled two fog targets and wrote a third
NoAliasingWitness ==
    /\ variant = "fog"
    /\ Len(jitterLog) >= 3
    /\ \E i \in PassDraws(draws, "blend") :
          /\ Cardinality(draws[i].sampled) = 2
          /\ draws[i].dest \in FogTargets

\* C2: bootstrap correctness (fog pipeline).  The first completed render() with a
\* scene after construction or after updateTargets() issues no blend draw, leaves
\* as fog history exactly the buffer the fog march wrote in that frame, which is
\* the fog compose samples, and leaves the first-frame flag false.
BootstrapCorrectness ==
    [][(/\ pipe.sceneBuilder # "null"
        /\ Len(jitterLog) = 0
        /\ RenderCall(MaxFrames, FALSE))
       => (/\ PassDraws(draws', "blend") = {}
           /\ PassDraws(draws', "fog") # {}
           /\ \A i \in PassDraws(draws', "fog") : draws'[i].dest = pipe'.fogHistoryTarget
           /\ \A i \in PassDraws(draws', "compose") :
                 pipe'.fogHistoryTarget \in draws'[i].sampled
           /\ ~pipe'.fogFirstFrame)]_vars

\* the state after a bootstrap frame that followed an updateTargets() on a pipeline
\* whose fog buffers had already changed roles
BootstrapWitness ==
    /\ variant = "fog"
    /\ Len(jitterLog) = 1
    /\ Len(draws) = 4
    /\ PassDraws(draws, "blend") = {}
    /\ ~pipe.fogFirstFrame
    /\ pipe.fogBlendedTarget # "fogC"

\* C3: scene rebind re-enters BOOTSTRAP.  After setScene() on a pipeline in steady
\* state, the next completed render() issues no blend draw and seeds the fog
\* history with the buffer the fog march wrote.
SceneRebindBootstraps ==
    [][(/\ rebound
        /\ pipe.sceneBuilder # "null"
        /\ RenderCall(MaxFrames, FALSE))
       => (/\ PassDraws(draws', "blend") = {}
           /\ \A i \in PassDraws(draws', "fog") : draws'[i].dest = pipe'.fogHistoryTarget)]_vars

\* C4: material restoration.  A render() whose depth pass completes leaves every
\* mesh's material reference as it was before the call, and leaves no per-object
\* clone undisposed that was not already there.
MaterialRestoration ==
    [][RenderCall(MaxFrames, FALSE)
       => (meshMaterial' = meshMaterial /\ liveClones' = liveClones)]_vars

\* a completed frame whose depth pass drew both transparent meshes with clones
MaterialRestorationWitness ==
    /\ variant = "fog"
    /\ \E i \in PassDraws(draws, "depth") : draws[i].substituted = {"cube", "particles"}
    /\ PassDraws(draws, "compose") # {}
    /\ \A mesh \in Meshes : meshMaterial[mesh] = OriginalMaterial(mesh)
    /\ liveClones = {}

\* C5: restoration under failure.  A render() whose depth-pass scene draw throws
\* still leaves every mesh with the material it had and every clone disposed.
RestorationUnderFailure ==
    [][RenderCall(MaxFrames, TRUE)
       => (meshMaterial' = meshMaterial /\ liveClones' = liveClones)]_vars

\* C6: jitter cycle coverage (fog pipeline).  Within N*N = 64 consecutive render()
\* calls with no updateTargets() in between, the jitter index handed to the 8x8
\* depth shader lies in [0, 64) and never takes the same value twice.
JitterCycleCoverage ==
    Len(jitterLog) <= BAYER_LEN("stochasticDepth8")
    => /\ \A i \in DOMAIN jitterLog : jitterLog[i] \in 0..(BAYER_LEN("stochasticDepth8") - 1)
       /\ \A i, j \in DOMAIN jitterLog : i # j => jitterLog[i] # jitterLog[j]

\* C7: stochastic convergence.  Over one full cycle of N*N jitter indices at a fixed
\* pixel, a fragment of final opacity p in [0,1] (opacity times texture alpha) is
\* kept in exactly round(p * N*N) frames, for N = 4 and N = 8.
StochasticConvergenceRound ==
    LET len == BAYER_LEN(dither.shader)
        p == finalOpacity(dither.shader, dither.opacity, dither.hasOpacityMap, dither.alpha)
    IN dither.jitterIndex = len => dither.survived = Round(p.num * len, p.den)

\* C8: the dither matrix is a permutation.  The matrix the shader indexes has N*N
\* entries and contains each threshold k / (N*N), k in 0 .. N*N-1, exactly once.
DitherMatrixPermutation ==
    LET matrix == BayerMatrix(dither.shader)
        len == BAYER_LEN(dither.shader)
    IN /\ Len(matrix) = len
       /\ \A k \in 0..(len - 1) : Cardinality({i \in DOMAIN matrix : matrix[i] = k}) = 1

\* a fragment of each matrix size has met every threshold of its matrix in one cycle
DitherMatrixWitness ==
    /\ dither.shader = "stochasticDepth4"
    /\ dither.jitterIndex = BAYER_LEN(dither.shader)
    /\ dither.thresholds = 0..(BAYER_LEN(dither.shader) - 1)

\* C9: blend weight conservation.  For the blend factor b stored by
\* setFogBlendFactor / setTAABlendFactor, whatever its value, the blend pass
\* computes b * history + (1 - b) * current: the two weights sum to one.
BlendProbes == 0..2

ResizeIdempotence ==
    /\ updateTargets(updateTargets(pipe, window), window) = updateTargets(pipe, window)
    /\ taaUpdateTargets(taaUpdateTargets(taa, window), window) = taaUpdateTargets(taa, window)

\* a pipeline that has rendered, had its fog roles swapped, seen the window change
\* and is about to be resized: updateTargets() changes it
ResizeIdempotenceWitness ==
    /\ variant = "fog"
    /\ pipe.stochasticDepthMaterial.created
    /\ ~pipe.fogFirstFrame
    /\ pipe.fogBlendedTarget # "fogC"
    /\ pipe.size["color"] # window
    /\ pipe.downsamplingFactor = 2
    /\ updateTargets(pipe, window) # pipe

\* C11: resize postcondition.  After updateTargets(), called directly, through
\* setDownsamplingFactor(n) or through the Renderer's resize handler, the color target
\* has the window size W x H, the depth target and all three fog targets, whatever their
\* roles, have size floor(W/f) x floor(H/f) for the current factor f,
\* getDownsamplingFactor() returns the last value set, and the first-frame flag is true.
ResizePostcondition ==
    [][(variant = "fog" /\ (UpdateTargets \/ OnResize \/ SetDownsamplingFactor))
       => LET f == getDownsamplingFactor(pipe')
              small == <<window'[1] \div f, window'[2] \div f>>
          IN /\ pipe'.size["color"] = window'
             /\ pipe'.size["depth"] = small
             /\ \A t \in FogTargets : pipe'.size[t] = small
             /\ pipe'.fogFirstFrame
             /\ \A value \in DownsamplingFactors :
                   SetDownsamplingFactorTo(value) => f = value
             /\ (UpdateTargets \/ OnResize) => f = getDownsamplingFactor(pipe)]_vars

\* a pipeline resized to 5 x 3 at factor 2 after its fog buffers had changed roles:
\* every fog target is 2 x 1
ResizePostconditionWitness ==
    /\ variant = "fog"
    /\ window = <<5, 3>>
    /\ getDownsamplingFactor(pipe) = 2
    /\ pipe.fogBlendedTarget # "fogC"
    /\ pipe.stochasticDepthMaterial.created
    /\ pipe.fogFirstFrame
    /\ pipe.size["color"] = <<5, 3>>
    /\ \A t \in FogTargets : pipe.size[t] = <<2, 1>>

\* C12: no scene means no-op.  While no scene has been bound, every render() of the
\* fog pipeline issues no draw, leaves the pipeline, the materials and the clones as
\* they were, and raises no error.
NoSceneNoOp ==
    [][(variant = "fog" /\ pipe.sceneBuilder = "null" /\ Render)
       => (/\ draws' = <<>>
           /\ pipe' = pipe
           /\ meshMaterial' = meshMaterial
           /\ liveClones' = liveClones
           /\ jitterLog' = jitterLog
           /\ \A throws \in BOOLEAN : ~render(Machine, window, throws).thrown)]_vars

\* a fog pipeline still without a scene whose factor, blend factor and size were
\* changed since construction, on which render() has issued no draw
NoSceneNoOpWitness ==
    /\ variant = "fog"
    /\ pipe.sceneBuilder = "null"
    /\ getDownsamplingFactor(pipe) # DefaultDownsamplingFactor
    /\ getFogBlendFactor(pipe) # DefaultBlendFactor
    /\ pipe.size["color"] = <<5, 3>>
    /\ ENABLED Render
    /\ draws = <<>>

\* C13: canonical projection restored (TAA variant).  After every render() call that
\* returns, whatever render(), updateTargets() and updateProjectionMatrix() calls came
\* before, the camera's projection matrix equals the stored matrix, the stored matrix
\* is the one captured at construction or at the last updateProjectionMatrix(), and it
\* carries no jitter offset.
CanonicalProjectionRestored ==
    [][(variant = "taa" /\ TAARender /\ ~taaRender(taa, meshMaterial, window).thrown)
       => (/\ taa'.projectionMatrix = taa'.originalProjectionMatrix
           /\ taa'.originalProjectionMatrix = taa.originalProjectionMatrix
           /\ taa'.projectionMatrix.offsets = 0)]_vars

\* C14: transparent-object registry.  The cached list of transparent meshes is changed
\* only by setScene(); right after setScene(s) it holds, once each, exactly the meshes
\* of s whose material is a transparent MeshPhysicalMaterial at that moment; no
\* render(), updateTargets(), resize or setter call changes it.
TransparentRegistry ==
    [][/\ (UNCHANGED <<window, draws, jitterLog, meshMaterial>> /\ SetScene)
          => LET cache == pipe'.transparentMeshes
             IN /\ {cache[i] : i \in DOMAIN cache}
                      = {mesh \in SceneMeshes(pipe'.sceneBuilder) :
                            meshMaterial[mesh] \in {"cylinderMaterial", "particleMaterial"}}
                /\ \A i, j \in DOMAIN cache : i # j => cache[i] # cache[j]
       /\ pipe'.transparentMeshes # pipe.transparentMeshes
          => (SetScene /\ ~(Render \/ UpdateTargets \/ SetDownsamplingFactor
                              \/ SetFogBlendFactor \/ OnResize \/ WindowResize))]_vars

\* the registry built for the tree scene, particles visited first, still in place
\* after a completed frame and an updateTargets()
TransparentRegistryWitness ==
    /\ variant = "fog"
    /\ pipe.sceneBuilder = "treeScene"
    /\ pipe.transparentMeshes = <<"particles", "cube">>
    /\ PassDraws(draws, "compose") # {}
    /\ pipe.fogFirstFrame

\* C15: composite background substitution.  For a pixel whose scene alpha is at most
\* 0.001 the compose output before grading is backgroundColor + blurred fog, whatever
\* the scene colour; for a pixel whose scene alpha is above 0.001 it is scene colour +
\* blurred fog.  The blurred fog is the fog texel itself when the radius is 0.
CompositeBackground ==
    composed.drawn
    => LET fog == IF composed.fogBlurRadius <= 0 THEN composed.fogTexel ELSE composed.fogMean
       IN IF composed.a * 1000 <= AlphaScale
          THEN composed.finalColor = composed.backgroundColor + fog
          ELSE composed.finalColor = composed.rgb + fog

\* a composed pixel with alpha exactly 0.001 whose scene colour differs from the
\* background: the output shows the background
CompositeBackgroundWitness ==
    /\ composed.drawn
    /\ composed.a * 1000 = AlphaScale
    /\ composed.rgb # composed.backgroundColor
    /\ composed.fogBlurRadius > 0
    /\ composed.fogMean # composed.fogTexel
    /\ composed.finalColor = composed.backgroundColor + composed.fogMean

\* C16: disposal is complete and repeatable.  After dispose(), reached from any
\* sequence of render() and updateTargets() calls, every render target, every material
\* and the shared fullscreen geometry the pipeline created has been disposed, the
\* per-object clones included, and a second dispose() changes nothing more.
DisposalComplete ==
    [][Dispose
       => (/\ PipelineTargets \subseteq pipe'.disposed
           /\ {"fogMaterial", "fogBlendMaterial", "composeMaterial", "depthPassMaterial",
               "fullscreenTriangle"} \subseteq pipe'.disposed
           /\ pipe.stochasticDepthMaterial.created
                 => "stochasticDepthMaterial" \in pipe'.disposed
           /\ liveClones' = {}
           /\ dispose(pipe') = pipe')]_vars

\* C17: tunable setters are pure pass-throughs.  For every value v, inside or outside
\* [0,1], setFogBlendFactor(v) then getFogBlendFactor() gives v and setFogBlurRadius(v)
\* then getFogBlurRadius() gives v, unclamped, and the setter changes nothing else:
\* not the first-frame flag, the jitter index, the buffer roles or any other field.
SettersPassThrough ==
    [][/\ \A v \in BlendFactors :
             SetFogBlendFactorTo(v)
             => (/\ getFogBlendFactor(pipe') = v
                 /\ [pipe' EXCEPT !.fogBlendMaterial.blendFactor =
                                      pipe.fogBlendMaterial.blendFactor] = pipe)
       /\ \A v \in BlurRadii :
             SetFogBlurRadiusTo(v)
             => (/\ getFogBlurRadius(pipe') = v
                 /\ [pipe' EXCEPT !.composeMaterial.fogBlurRadius =
                                      pipe.composeMaterial.fogBlurRadius] = pipe)]_vars

\* a pipeline in steady state, mid-cycle, with permuted fog roles, holding a blend
\* factor below 0 and a blur radius above the shader's maximum of 4
SettersPassThroughWitness ==
    /\ variant = "fog"
    /\ getFogBlendFactor(pipe) < 0
    /\ getFogBlurRadius(pipe) > 4
    /\ ~pipe.fogFirstFrame
    /\ pipe.stochasticJitterIndex = 2
    /\ pipe.fogBlendedTarget # "fogC"

\* C18: cross-frame ordering.  On every steady-state frame N of the fog pipeline the
\* target the blend pass samples as history is the target that held the previous
\* frame's final accumulation, the one compose last sampled as fog, and the target
\* compose samples in frame N is the one the blend pass wrote in frame N.
CrossFrameOrdering ==
    [][(/\ variant = "fog"
        /\ pipe.sceneBuilder # "null"
        /\ ~pipe.fogFirstFrame
        /\ Len(draws') > 2
        /\ RenderCall(MaxFrames, FALSE))
       => \E b \in PassDraws(draws', "blend"), c \in PassDraws(draws', "compose") :
             /\ b < c
             /\ pipe'.fogBlendMaterial.tHistory = pipe.composeMaterial.tFog
             /\ pipe'.fogBlendMaterial.tHistory \in draws'[b].sampled
             /\ \A c0 \in PassDraws(draws, "compose") :
                   pipe'.fogBlendMaterial.tHistory \in draws[c0].sampled
             /\ pipe'.composeMaterial.tFog = draws'[b].dest
             /\ draws'[b].dest \in draws'[c].sampled]_vars

\* the third frame since the last reset: its blend pass wrote the target that was the
\* current-frame buffer at construction, and compose sampled that target
CrossFrameOrderingWitness ==
    /\ variant = "fog"
    /\ Len(jitterLog) = 3
    /\ \E b \in PassDraws(draws, "blend"), c \in PassDraws(draws, "compose") :
          /\ draws[b].dest = "fogA"
          /\ "fogA" \in draws[c].sampled
    /\ pipe.fogHistoryTarget = "fogA"

\* the passes of one render() in program order; a bootstrap frame has no blend pass
PassOrder(firstFrame) ==
    IF firstFrame
    THEN <<"color", "depth", "fog", "compose">>
    ELSE <<"color", "depth", "fog", "blend", "compose">>

\* the destination a pass binds, by the roles the pipeline holds when render() starts
PassDest(p, pass) ==
    CASE pass = "color" -> p.colorTarget
      [] pass = "depth" -> p.depthTarget
      [] pass = "fog" -> p.fogCurrentTarget
      [] pass = "blend" -> p.fogBlendedTarget
      [] pass = "compose" -> "screen"

\* C19: strict pass order.  Every render() with a bound scene binds its destinations
\* in the order color target, depth target, fog-current target, fog-blended target
\* (no blend pass on a bootstrap frame), screen, all of them when the call returns,
\* and every pass samples only targets written earlier in the same frame or the
\* history target written before the frame (never on a bootstrap frame).
StrictPassOrder ==
    [][(/\ variant = "fog"
        /\ pipe.sceneBuilder # "null"
        /\ Render)
       => LET order == PassOrder(pipe.fogFirstFrame)
              history == IF pipe.fogFirstFrame THEN {} ELSE {pipe.fogHistoryTarget}
          IN /\ Len(draws') <= Len(order)
             /\ \A i \in DOMAIN draws' :
                   /\ draws'[i].pass = order[i]
                   /\ draws'[i].dest = PassDest(pipe, order[i])
                   /\ draws'[i].sampled
                         \subseteq {draws'[j].dest : j \in 1..(i - 1)} \cup history
             /\ RenderCall(MaxFrames, FALSE) => Len(draws') = Len(order)]_vars

\* a completed steady-state frame: five draws, the blend pass fourth with the current
\* buffer and the history both sampled, the screen last
StrictPassOrderWitness ==
    /\ variant = "fog"
    /\ Len(draws) = 5
    /\ draws[4].pass = "blend"
    /\ Cardinality(draws[4].sampled) = 2
    /\ draws[3].dest \in draws[4].sampled
    /\ draws[5].dest = "screen"

\* the jitter counters of the pipeline that was constructed
JitterIndicesInRange ==
    IF variant = "fog"
    THEN pipe.stochasticJitterIndex \in 0..(JitterPeriod - 1)
    ELSE /\ taa.stochasticJitterIndex \in 0..(TAAStochasticJitterPeriod - 1)
         /\ taa.taaJitterIndex \in 0..(TAAJitterPeriod - 1)

\* C20: jitter state invariant.  In every reachable state of either variant the
\* stochastic dither index lies in [0, 16) and the TAA camera-jitter index in [0, 8),
\* and immediately after updateTargets(), called directly or by the resize handler,
\* every jitter index of the pipeline is 0.
JitterStateInvariant ==
    /\ []JitterIndicesInRange
    /\ [][/\ (UpdateTargets \/ (variant = "fog" /\ OnResize))
              => pipe'.stochasticJitterIndex = 0
          /\ (TAAUpdateTargets \/ (variant = "taa" /\ OnResize))
              => (taa'.stochasticJitterIndex = 0 /\ taa'.taaJitterIndex = 0)]_vars

\* the sixteenth frame since the last reset has wrapped the stochastic index to 0,
\* its uniform still holds 15, and updateTargets() can follow
JitterStateInvariantWitness ==
    /\ variant = "fog"
    /\ Len(jitterLog) = JitterPeriod
    /\ pipe.stochasticJitterIndex = 0
    /\ pipe.stochasticDepthMaterial.jitterIndex = JitterPeriod - 1
    /\ ENABLED UpdateTargets

\* C21: one jitter step per frame (TAA variant).  When the scene's cube uses a
\* stochastic ShaderMaterial, each render() call advances the stochastic jitter index
\* by exactly one, and the jitterIndex uniform in effect at the scene draw is the
\* index the call started with, so that 16 consecutive calls draw with every value
\* of [0, 16) once.
OneJitterStepPerFrame ==
    [][(/\ variant = "taa"
        /\ taa.sceneBuilder # "null"
        /\ IsShaderMaterial(CubeMaterial(taa.sceneBuilder, meshMaterial))
        /\ TAARender)
       => /\ taa'.stochasticJitterIndex
                = (taa.stochasticJitterIndex + 1) % TAAStochasticJitterPeriod
          /\ draws'[1].jitterIndex = taa.stochasticJitterIndex]_vars

\* C22: first-frame rule (TAA variant).  On a render() entered with the first-frame
\* flag set no blend draw samples the history (accumulated) target, the scene is
\* drawn straight into the history slot, and the flag is false when the call returns.
TAAFirstFrameRule ==
    [][(/\ variant = "taa"
        /\ taa.sceneBuilder # "null"
        /\ taa.taaFirstFrame
        /\ TAARender)
       => /\ \A b \in PassDraws(draws', "blend") :
                taa.taaAccumulatedTarget \notin draws'[b].sampled
          /\ \E d \in PassDraws(draws', "scene") :
                draws'[d].dest = taa.taaAccumulatedTarget
          /\ ~taa'.taaFirstFrame]_vars

\* three consecutive steady-state frames N, N+1, N+2 of the fog pipeline: `draws` is
\* frame N+1 with its blend pass, prevHistory the history frame N's blend sampled, and
\* the step is the completed render() of frame N+2
SteadyTriple ==
    /\ variant = "fog"
    /\ pipe.sceneBuilder # "null"
    /\ ~pipe.fogFirstFrame
    /\ prevHistory # "none"
    /\ PassDraws(draws, "blend") # {}
    /\ RenderCall(MaxFrames, FALSE)

\* C23: ping-pong reuse distance (fog pipeline).  In steady state the buffer the blend
\* pass samples as history in frame N is the blend pass's write target in frame N+2,
\* and not in frame N+1.
PingPongReuseDistance ==
    [][SteadyTriple
       => /\ \A b \in PassDraws(draws', "blend") : draws'[b].dest = prevHistory
          /\ \A b \in PassDraws(draws, "blend") : draws[b].dest # prevHistory]_vars

\* C23 as amended: the buffer sampled as history in frame N is the blend pass's write
\* target in frame N+1, and in frame N+2 it is not the write target but the history
\* again.
PingPongReuseNextFrame ==
    [][SteadyTriple
       => /\ \A b \in PassDraws(draws, "blend") : draws[b].dest = prevHistory
          /\ \A b \in PassDraws(draws', "blend") :
                /\ draws'[b].dest # prevHistory
                /\ prevHistory \in draws'[b].sampled
          /\ PassDraws(draws', "blend") # {}]_vars

\* the fourth frame since the reset has been drawn: its blend pass wrote the target
\* that the third frame's blend pass sampled as history, and sampled another one
PingPongReuseWitness ==
    /\ variant = "fog"
    /\ Len(jitterLog) = 4
    /\ prevHistory # "none"
    /\ \E b \in PassDraws(draws, "blend") :
          /\ BlendHistory(draws) # prevHistory
          /\ draws[b].dest = prevHistory

\* C24: the fog buffer roles form a permutation.  In every state reached by render(),
\* updateTargets(), setDownsamplingFactor() and setScene() the current, history and
\* blended references are non-null, pairwise distinct and exactly the three targets
\* created at construction.
FogRolesPermutation ==
    variant = "fog"
    => /\ "null" \notin {pipe.fogCurrentTarget, pipe.fogHistoryTarget, pipe.fogBlendedTarget}
       /\ pipe.fogCurrentTarget # pipe.fogHistoryTarget
       /\ pipe.fogCurrentTarget # pipe.fogBlendedTarget
       /\ pipe.fogHistoryTarget # pipe.fogBlendedTarget
       /\ {pipe.fogCurrentTarget, pipe.fogHistoryTarget, pipe.fogBlendedTarget} = FogTargets

\* after the bootstrap swap and one blend swap no role holds the target it was
\* constructed with
FogRolesPermutationWitness ==
    /\ variant = "fog"
    /\ pipe.fogCurrentTarget = "fogB"
    /\ pipe.fogHistoryTarget = "fogC"
    /\ pipe.fogBlendedTarget = "fogA"
    /\ PassDraws(draws, "blend") # {}

\* C25: consistent jitter within a frame.  In every depth pass the jitter index written
\* to each per-object clone equals the one written to the shared stochastic depth
\* material in that frame; the first frame after updateTargets() draws with index 0.
ConsistentJitterWithinFrame ==
    variant = "fog"
    => \A d \in PassDraws(draws, "depth") :
          /\ \A j \in draws[d].cloneJitter : j = draws[d].jitterIndex
          /\ Len(jitterLog) = 1 => draws[d].cloneJitter \subseteq {0}

\* C26: no frame after shutdown.  Once Renderer.dispose() has run after start(), the
\* animation loop never calls Pipeline.render() again.
NoFrameAfterShutdown ==
    app.disposedAfterStart => "render" \notin app.afterShutdown

\* dispose() ran while the callback of the second frame was scheduled: the callback
\* is gone from the browser's queue
NoFrameAfterShutdownWitness ==
    /\ app.disposedAfterStart
    /\ app.animationFrameId = 2
    /\ app.scheduled = {}

\* C27: the resize handler is detached on shutdown.  After Renderer.dispose() a window
\* resize event no longer reaches onResize(), so updateTargets() is never called on
\* the disposed pipeline.
ResizeHandlerDetached ==
    app.disposed => /\ app.listeners = {}
                    /\ "updateTargets" \notin app.afterDispose

\* C30: a persistence failure does not block start-up.  If opening the settings store
\* or loading the saved settings rejects, init() still builds the scene, binds it with
\* setScene(), calls updateTargets() and applies the default settings, in that order,
\* and resolves.
PersistenceFailureStartsUp ==
    app.persistence \in {"openRejected", "loadRejected"}
    => /\ app.pc = "initDone"
       /\ app.settingsData = "defaults"
       /\ Len(app.initLog) >= 4
       /\ SubSeq(app.initLog, 1, 4) = <<"build", "setScene", "updateTargets", "applySettings">>

\* the store failed to open, and the loop was started on the renderer that init() left
PersistenceFailureStartsUpWitness ==
    /\ app.persistence = "openRejected"
    /\ app.settingsStorage = "null"
    /\ app.started
    /\ app.scheduled # {}

\* C28: the singleton storage is initialised before use.  Under any interleaving of
\* concurrent getInstance() calls every caller receives the same instance, the database
\* is opened at most once, and no caller's promise resolves with an instance whose
\* database handle is still null, also after a failed first open.
SingletonInitialisedBeforeUse ==
    /\ \A c \in Callers :
          storage.caller[c].got # "none"
          => /\ storage.caller[c].got = "theInstance"
             /\ storage.caller[c].dbAtResolve # "null"
    /\ storage.opens <= 1

\* C29: the settings merge keeps what it is not given.  After setData(d) with a
\* partial d every field present in d reads back d's value through its getter, every
\* field absent from d, also inside a section that d supplies, keeps the value it had
\* before the call, and no getter returns undefined.
SettingsMergeKeeps ==
    settings.called
    => \A section \in Sections : \A f \in SettingsFields(section) :
          /\ getField(settings.data, section, f)
                = IF section \in DOMAIN settings.given /\ f \in DOMAIN settings.given[section]
                  THEN settings.given[section][f]
                  ELSE getField(settings.before, section, f)
          /\ getField(settings.data, section, f) # "undefined"

====
